---- MODULE Spec2Model ----
(***************************************************************************)
(* A model of xcape (src/xcape.c): the interception callback with its      *)
(* generated-event ledger, the per-rule tap/hold logic, the keyboard-group *)
(* tracking, and the two threads (main and the signal waiter) with the     *)
(* display lock of the control connection.                                 *)
(***************************************************************************)
EXTENDS Integers, Sequences, FiniteSets, TLC

(***************************************************************************)
(* Bounds of the model.                                                    *)
(***************************************************************************)
\* the clock is advanced at most this many times
MaxTicks == 2
\* at most this many injected events are in flight (not yet echoed)
MaxEchoes == 4
\* the user switches the layout group at most this many times
MaxSwitches == 1
\* a configuration string has at most this many entries
MaxEntries == 3

(***************************************************************************)
(* Time: struct timeval, timersub and timercmp of <sys/time.h>.            *)
(***************************************************************************)
USEC_PER_SEC == 1000000

TimeVal(s, u) == [tv_sec |-> s, tv_usec |-> u]

\* the default of self->timeout
DefaultTimeout == TimeVal(0, 500000)

\* timersub(a, b, result)
timersub(a, b) ==
    IF a.tv_usec - b.tv_usec < 0
    THEN TimeVal(a.tv_sec - b.tv_sec - 1, a.tv_usec - b.tv_usec + USEC_PER_SEC)
    ELSE TimeVal(a.tv_sec - b.tv_sec, a.tv_usec - b.tv_usec)

\* timercmp with <= in place of <
timercmp_le(a, b) ==
    IF a.tv_sec = b.tv_sec THEN a.tv_usec <= b.tv_usec ELSE a.tv_sec < b.tv_sec

\* timercmp(a, b, <)
timercmp_lt(a, b) ==
    IF a.tv_sec = b.tv_sec THEN a.tv_usec < b.tv_usec ELSE a.tv_sec < b.tv_sec

\* one advance of the clock: half of the default timeout
TickStep == TimeVal(0, 250000)

\* the clock a step d after t
TimeAfter(t, d) ==
    IF t.tv_usec + d.tv_usec >= USEC_PER_SEC
    THEN TimeVal(t.tv_sec + d.tv_sec + 1, t.tv_usec + d.tv_usec - USEC_PER_SEC)
    ELSE TimeVal(t.tv_sec + d.tv_sec, t.tv_usec + d.tv_usec)

(***************************************************************************)
(* The keyboard and the pointer of the modelled server.                    *)
(***************************************************************************)
\* key codes of the keys the user presses: 9 Escape, 37 Control_L
KeyCodes == {9, 37}
\* pointer buttons: 1 is the left button, 9 an extra (side) button
Buttons == {1, 9}
\* layout groups of the server
Groups == {0, 1}

\* XkbKeycodeToKeysym(dpy, code, 0, 0)
XkbKeycodeToKeysym(code) ==
    CASE code = 9 -> "Escape"
      [] code = 37 -> "Control_L"
      [] code = 38 -> "a"
      [] OTHER -> "NoSymbol"

(***************************************************************************)
(* Mapping tables (KeyMap_t lists) as parse_mapping builds them.           *)
(***************************************************************************)
\* a KeyMap_t as calloc and parse_token leave it
KeyMap(useKeyCode, ks, kc, to) ==
    [UseKeyCode |-> useKeyCode, from_ks |-> ks, from_kc |-> kc, to_keys |-> to,
     used |-> FALSE, pressed |-> FALSE, down_at |-> TimeVal(0, 0)]

\* "Control_L=Escape", the default mapping
MapDefault == << KeyMap(FALSE, "Control_L", 0, <<9>>) >>
\* "#37=Escape|a;Escape=a": a chord, and a substitute that is itself a trigger
MapChord == << KeyMap(TRUE, "NoSymbol", 37, <<9, 38>>),
               KeyMap(FALSE, "Escape", 0, <<38>>) >>

Mappings == {MapDefault, MapChord}

(***************************************************************************)
(* State.                                                                  *)
(***************************************************************************)
VARIABLES
    \* XCape_t and the static of intercept
    map,              \* self->map: the rules, with used, pressed, down_at
    generated,        \* self->generated: the ledger of injected key codes
    mouse_pressed,    \* static Bool mouse_pressed of intercept
    intended_group,   \* self->intended_group
    previous_group,   \* self->previous_group
    record_ctx,       \* self->record_ctx: "unset" until XRecordCreateContext
    \* the two threads
    pc_main,          \* where the main thread is
    pc_sig,           \* where the signal thread is
    data,             \* the XRecordInterceptData handed to intercept
    current_group,    \* the local current_group of intercept
    lock,             \* XLockDisplay state of ctrl_conn: owner and nesting level
    exit_status,      \* "running" until the process exits
    \* the server and the user
    now,              \* what gettimeofday returns
    ticks,            \* how often the clock has advanced
    server_group,     \* the layout group of the server
    switches,         \* how often the user has switched the group
    echoes,           \* injected events the server has not yet reported back
    mapping,          \* char *mapping of main: the configuration string
    keyboard,         \* the key codes of the user's keyboard
    pointer,          \* the buttons of the user's pointer
    keys_down,        \* keys the user holds
    buttons_down,     \* pointer buttons the user holds
    ctx_enabled,      \* whether the record context delivers events
    \* what the last run of intercept did
    fake,             \* per rule, the requests handle_key issued
    absorbed,         \* whether the event matched the ledger
    ctrl_req,         \* the last request on ctrl_conn: by whom, lock held or
                      \* not, failed or not
    \* the observer of one rule
    watch,            \* the rule observed
    mon               \* the last press and release of its trigger by the user

vars == << map, generated, mouse_pressed, intended_group, previous_group,
           record_ctx, pc_main, pc_sig, data, current_group, lock, exit_status,
           now, ticks, server_group, switches, echoes, mapping, keyboard,
           pointer, keys_down, buttons_down, ctx_enabled, fake, absorbed,
           ctrl_req, watch, mon >>

prog_vars == << map, generated, mouse_pressed, intended_group, previous_group >>
mon_vars == << watch, mon >>
env_vars == << now, ticks, server_group, switches, echoes, mapping, keyboard,
               pointer, keys_down, buttons_down >>

(***************************************************************************)
(* Events and requests.                                                    *)
(***************************************************************************)
\* an XRecordInterceptData; synthetic tells an echo from user input and is
\* known to the server only
Event(category, type, code, synthetic) ==
    [category |-> category, type |-> type, code |-> code,
     synthetic |-> synthetic]

NoEvent == Event("none", "none", 0, FALSE)
StartOfData == Event("XRecordStartOfData", "none", 0, FALSE)

\* XTestFakeKeyEvent(ctrl_conn, key, is_press, 0)
XTestFakeKeyEvent(key, is_press) ==
    [req |-> "XTestFakeKeyEvent", key |-> key, is_press |-> is_press]
\* XFlush(ctrl_conn)
XFlush == [req |-> "XFlush", key |-> 0, is_press |-> FALSE]

\* the event the server reports for a request of handle_key
EchoOf(r) ==
    Event("XRecordFromServer",
          IF r.is_press THEN "KeyPress" ELSE "KeyRelease", r.key, TRUE)

RECURSIVE EchoesOf(_)
EchoesOf(reqs) ==
    IF reqs = << >> THEN << >>
    ELSE IF Head(reqs).req = "XTestFakeKeyEvent"
         THEN << EchoOf(Head(reqs)) >> \o EchoesOf(Tail(reqs))
         ELSE EchoesOf(Tail(reqs))

(***************************************************************************)
(* key_add_key and the ledger search of intercept.                         *)
(***************************************************************************)
\* key_add_key(keys, key): append one Key_t at the tail
key_add_key(keys, key) == Append(keys, key)

\* a search that keeps going and ends on the last entry with the key code
RECURSIVE LedgerFindLast(_, _, _)
LedgerFindLast(gen, key_code, i) ==
    IF i > Len(gen) THEN 0
    ELSE LET later == LedgerFindLast(gen, key_code, i + 1)
         IN IF later # 0 THEN later
            ELSE IF gen[i] = key_code THEN i ELSE 0

\* the loop over self->generated: the position of the first entry with
\* g->key == key_code, 0 when the loop ends without a match
RECURSIVE LedgerFind(_, _, _)
LedgerFind(gen, key_code, i) ==
    IF i > Len(gen) THEN 0
    ELSE IF gen[i] = key_code THEN i
    ELSE LedgerFind(gen, key_code, i + 1)

\* an unlink that forgets to move the head: self->generated stays
LedgerUnlinkInner(gen, i) ==
    IF i > 1
    THEN SubSeq(gen, 1, i - 1) \o SubSeq(gen, i + 1, Len(gen))
    ELSE gen

\* unlinking entry i: g_prev->next = g->next, or self->generated = g->next
LedgerUnlink(gen, i) ==
    IF i > 1
    THEN SubSeq(gen, 1, i - 1) \o SubSeq(gen, i + 1, Len(gen))
    ELSE Tail(gen)

(***************************************************************************)
(* The configuration string and its parser.  A string is a sequence of     *)
(* pieces: the separators ";", "=", "|", "#" and words without separator.  *)
(***************************************************************************)
\* the first position of delimiter d in s from i on, 0 when there is none
RECURSIVE Pos(_, _, _)
Pos(s, d, i) ==
    IF i > Len(s) THEN 0
    ELSE IF s[i] = d THEN i
    ELSE Pos(s, d, i + 1)

\* strsep(&s, d): the token before the first d, and what is left of s;
\* more = FALSE stands for s left NULL
strsep(s, d) ==
    LET p == Pos(s, d, 1)
    IN IF p = 0
       THEN [token |-> s, rest |-> << >>, more |-> FALSE]
       ELSE [token |-> SubSeq(s, 1, p - 1),
             rest |-> SubSeq(s, p + 1, Len(s)), more |-> TRUE]

\* !strncmp(s, "#", 1)
StartsWithHash(s) == s # << >> /\ Head(s) = "#"

\* XStringToKeysym: the names the server knows
XStringToKeysym(s) ==
    IF Len(s) = 1 /\ s[1] \in {"Escape", "Control_L", "a", "F35"}
    THEN s[1] ELSE "NoSymbol"

\* XKeysymToKeycode: 0 for a symbol that is on no key
XKeysymToKeycode(ks) ==
    CASE ks = "Escape" -> 9
      [] ks = "Control_L" -> 37
      [] ks = "a" -> 38
      [] OTHER -> 0

\* strtoul(s, NULL, 0): the number s starts with, 0 when it starts with none
strtoul(s) ==
    IF s = << >> THEN 0
    ELSE CASE Head(s) = "9" -> 9
           [] Head(s) = "37" -> 37
           [] Head(s) = "38" -> 38
           [] Head(s) = "999" -> 999
           [] OTHER -> 0

\* the test of a parsed key code: in range, and a key with a symbol
ValidKeycode(parsed_code) ==
    /\ parsed_code <= 255
    /\ XkbKeycodeToKeysym(parsed_code % 256) # "NoSymbol"

\* keysym_from_keycode(dpy, key, debug, &parsed_code, km)
keysym_from_keycode(key, km) ==
    IF ValidKeycode(strtoul(key))
    THEN [km EXCEPT !.UseKeyCode = TRUE, !.from_kc = strtoul(key) % 256]
    ELSE km

\* keysym_from_string(dpy, from, debug, &ks, km)
keysym_from_string(from, km) ==
    IF XStringToKeysym(from) = "NoSymbol" THEN km
    ELSE [km EXCEPT !.UseKeyCode = FALSE, !.from_ks = XStringToKeysym(from),
                    !.to_keys = << >>]

\* the key code of one substitute, 0 when parse_token returns NULL for it
SubstituteCode(key) ==
    IF StartsWithHash(key)
    THEN IF ValidKeycode(strtoul(Tail(key))) THEN strtoul(Tail(key)) % 256
         ELSE 0
    ELSE IF XStringToKeysym(key) = "NoSymbol" THEN 0
         ELSE XKeysymToKeycode(XStringToKeysym(key))

\* the loop of parse_token over the substitutes in to
RECURSIVE SubstituteLoop(_, _, _)
SubstituteLoop(to, more, km) ==
    IF ~more THEN [null |-> FALSE, km |-> km]
    ELSE LET t == strsep(to, "|")
             code == SubstituteCode(t.token)
         IN IF code = 0 THEN [null |-> TRUE, km |-> km]
            ELSE SubstituteLoop(t.rest, t.more,
                     [km EXCEPT !.to_keys = key_add_key(@, code)])

\* parse_token(dpy, token, debug): null = TRUE stands for NULL
parse_token(token) ==
    LET t == strsep(token, "=")
        km == KeyMap(FALSE, "NoSymbol", 0, << >>)
        from == IF StartsWithHash(t.token)
                THEN keysym_from_keycode(Tail(t.token), km)
                ELSE keysym_from_string(t.token, km)
    IN IF ~t.more THEN [null |-> TRUE, km |-> km]
       ELSE SubstituteLoop(t.rest, TRUE, from)

\* a loop that gives up the whole table at the first token without a rule
RECURSIVE TokenLoopStrict(_, _, _)
TokenLoopStrict(str, more, rval) ==
    IF ~more THEN rval
    ELSE LET t == strsep(str, ";")
             nkm == parse_token(t.token)
         IN IF nkm.null THEN << >>
            ELSE TokenLoopStrict(t.rest, t.more, Append(rval, nkm.km))

\* the loop of parse_mapping over the tokens
RECURSIVE TokenLoop(_, _, _)
TokenLoop(str, more, rval) ==
    IF ~more THEN rval
    ELSE LET t == strsep(str, ";")
             nkm == parse_token(t.token)
         IN TokenLoop(t.rest, t.more,
                      IF nkm.null THEN rval ELSE Append(rval, nkm.km))

\* parse_mapping(ctrl_conn, mapping, debug): the empty list stands for NULL
parse_mapping(str) == TokenLoop(str, TRUE, << >>)

\* static char default_mapping[] = "Control_L=Escape"
default_mapping == << "Control_L", "=", "Escape" >>
\* "#37=Escape|a;Escape=a"
chord_mapping == << "#", "37", "=", "Escape", "|", "a", ";",
                    "Escape", "=", "a" >>

\* entries of a configuration string: two well-formed ones for the same
\* key, one without "=", two whose trigger does not resolve (a name, a key
\* code) and three whose substitute does not resolve (a name, a key code,
\* a symbol that is on no key)
Entries ==
    { << "Control_L", "=", "Escape" >>,
      << "#", "37", "=", "Escape", "|", "a" >>,
      << "foo" >>,
      << "foo", "=", "Escape" >>,
      << "#", "999", "=", "a" >>,
      << "Control_L", "=", "bar" >>,
      << "Control_L", "=", "#", "999" >>,
      << "Control_L", "=", "F35" >> }

\* the strings of n entries separated by ";"
RECURSIVE ConfigsOf(_)
ConfigsOf(n) ==
    IF n = 1 THEN Entries
    ELSE { c \o << ";" >> \o e : c \in ConfigsOf(n - 1), e \in Entries }

Configs == UNION { ConfigsOf(n) : n \in 1..MaxEntries }

\* the configuration string a mapping table of Mappings is parsed from
MappingOf(m) == IF m = MapDefault THEN default_mapping ELSE chord_mapping

(***************************************************************************)
(* handle_key.                                                             *)
(***************************************************************************)
\* one loop over key->to_keys: fake each key, record it in the ledger
RECURSIVE FakeLoop(_, _, _, _)
FakeLoop(k, is_press, gen, reqs) ==
    IF k = << >> THEN [generated |-> gen, requests |-> reqs]
    ELSE FakeLoop(Tail(k), is_press, key_add_key(gen, Head(k)),
                  Append(reqs, XTestFakeKeyEvent(Head(k), is_press)))

\* the test of the release branch: not used, and released before the timeout
IsTap(key, t) ==
    /\ key.used = FALSE
    /\ timercmp_lt(timersub(t, key.down_at), DefaultTimeout)

\* the press branch
HandlePress(key, mouse, t) ==
    [key EXCEPT !.pressed = TRUE, !.down_at = t,
                !.used = IF mouse THEN TRUE ELSE @]

\* each substitute pressed and released in turn, in a single loop
RECURSIVE TapLoop(_, _, _)
TapLoop(k, gen, reqs) ==
    IF k = << >> THEN [generated |-> gen, requests |-> reqs]
    ELSE TapLoop(Tail(k),
                 key_add_key(key_add_key(gen, Head(k)), Head(k)),
                 reqs \o << XTestFakeKeyEvent(Head(k), TRUE),
                            XTestFakeKeyEvent(Head(k), FALSE) >>)

GenerateInTurn(key, gen) ==
    LET all == TapLoop(key.to_keys, gen, << >>)
    IN [generated |-> all.generated, requests |-> Append(all.requests, XFlush)]

\* two flushed passes: a flush after the presses and one after the releases
GenerateFlushedPasses(key, gen) ==
    LET down == FakeLoop(key.to_keys, TRUE, gen, << >>)
        up == FakeLoop(key.to_keys, FALSE, down.generated,
                       Append(down.requests, XFlush))
    IN [generated |-> up.generated, requests |-> Append(up.requests, XFlush)]

\* the requests and ledger entries of a tap: all presses, all releases, a flush
Generate(key, gen) ==
    LET down == FakeLoop(key.to_keys, TRUE, gen, << >>)
        up == FakeLoop(key.to_keys, FALSE, down.generated, down.requests)
    IN [generated |-> up.generated, requests |-> Append(up.requests, XFlush)]

\* handle_key(self, key, mouse_pressed, key_event) at time t: the rule, the
\* ledger and the requests issued
handle_key(key, gen, mouse, key_event, t) ==
    IF key_event = "KeyPress"
    THEN [key |-> HandlePress(key, mouse, t), generated |-> gen,
          requests |-> << >>]
    ELSE LET out == IF IsTap(key, t) THEN Generate(key, gen)
                    ELSE [generated |-> gen, requests |-> << >>]
         IN [key |-> [key EXCEPT !.used = FALSE, !.pressed = FALSE],
             generated |-> out.generated, requests |-> out.requests]

(***************************************************************************)
(* intercept.                                                              *)
(***************************************************************************)
\* the condition under which intercept hands the event to handle_key
Matches(km, key_code) ==
    \/ km.UseKeyCode = FALSE /\ XkbKeycodeToKeysym(key_code) = km.from_ks
    \/ km.UseKeyCode = TRUE /\ key_code = km.from_kc

\* an else branch that does not look at km->pressed
DisqualifiesIdle(km, key_event) ==
    key_event = "KeyPress" \/ key_event = "ButtonPress"

\* the else branch of the loop over the rules
Disqualifies(km, key_event) ==
    km.pressed /\ (key_event = "KeyPress" \/ key_event = "ButtonPress")

\* the update of mouse_pressed
MouseAfter(mouse, key_event) ==
    IF key_event = "ButtonPress" THEN TRUE
    ELSE IF key_event = "ButtonRelease" THEN FALSE
    ELSE mouse

\* the loop over self->map from rule i on
RECURSIVE RuleLoop(_, _, _, _, _, _, _, _)
RuleLoop(m, gen, reqs, i, mouse, key_event, key_code, t) ==
    IF i > Len(m) THEN [map |-> m, generated |-> gen, requests |-> reqs]
    ELSE IF Matches(m[i], key_code)
    THEN LET h == handle_key(m[i], gen, mouse, key_event, t)
         IN RuleLoop([m EXCEPT ![i] = h.key], h.generated,
                     [reqs EXCEPT ![i] = h.requests],
                     i + 1, mouse, key_event, key_code, t)
    ELSE IF Disqualifies(m[i], key_event)
    THEN RuleLoop([m EXCEPT ![i].used = TRUE], gen, reqs,
                  i + 1, mouse, key_event, key_code, t)
    ELSE RuleLoop(m, gen, reqs, i + 1, mouse, key_event, key_code, t)

NoRequests(m) == [i \in 1..Len(m) |-> << >>]

\* all requests of one run of intercept, in the order issued
RECURSIVE Flatten(_, _)
Flatten(reqs, i) ==
    IF i > Len(reqs) THEN << >> ELSE reqs[i] \o Flatten(reqs, i + 1)

(***************************************************************************)
(* The display lock of ctrl_conn (XLockDisplay nests within one thread).   *)
(***************************************************************************)
Unlocked == [owner |-> "none", level |-> 0]

\* a thread may lock, or issue a request, unless another thread holds the lock
MayUse(thread) == lock.owner \in {"none", thread}

XLockDisplay(thread) == [owner |-> thread, level |-> lock.level + 1]

XUnlockDisplay(l) ==
    IF l.level > 1 THEN [l EXCEPT !.level = l.level - 1] ELSE Unlocked

Request(thread) ==
    [by |-> thread, locked |-> lock.owner = thread, failed |-> FALSE]

(***************************************************************************)
(* The observer: what the user did to the trigger of rule watch.  A window *)
(* opens when the user presses the trigger (the key was up) and closes     *)
(* when the user releases it.                                              *)
(***************************************************************************)
\* a time in microseconds
Usec(t) == t.tv_sec * USEC_PER_SEC + t.tv_usec

MonIdle ==
    [phase |-> "idle",     \* "open" from the press on, "closed" after the release
     at |-> TimeVal(0, 0), \* when the trigger was pressed
     seen |-> FALSE,       \* the press was not taken for an echo
     clean |-> FALSE,      \* the press left the rule not used
     alone |-> FALSE,      \* no other event was delivered since the press
     other |-> FALSE,      \* the user pressed another key or a button since
     held |-> FALSE,       \* the user held a button when pressing the trigger
     elapsed |-> 0]        \* microseconds from the press to the release

\* the observer after intercept has handled event e in the state given by
\* the rules m, the ledger gen and the mouse flag
MonAfter(o, e, m, gen, mouse) ==
    LET base == IF o.phase = "closed" THEN MonIdle ELSE o
        isAbsorbed == LedgerFind(gen, e.code, 1) # 0
        user == e.category = "XRecordFromServer" /\ ~e.synthetic
        trigger == user /\ Matches(m[watch], e.code)
    IN IF e.category # "XRecordFromServer" THEN base
       ELSE IF trigger /\ e.type = "KeyPress" /\ base.phase # "open"
       THEN [phase |-> "open", at |-> now, seen |-> ~isAbsorbed,
             clean |-> ~isAbsorbed /\ ~m[watch].used /\ ~mouse,
             alone |-> TRUE, other |-> FALSE,
             held |-> buttons_down # {}, elapsed |-> 0]
       ELSE IF trigger /\ e.type = "KeyRelease" /\ base.phase = "open"
       THEN [base EXCEPT !.phase = "closed",
                         !.elapsed = Usec(now) - Usec(base.at)]
       ELSE IF base.phase = "open"
       THEN [base EXCEPT !.alone = FALSE,
                         !.other = @ \/ (user /\ ~trigger /\ e.type = "KeyPress")
                                     \/ (user /\ e.type = "ButtonPress")]
       ELSE base

(***************************************************************************)
(* Initial state: main has blocked the signals (line 205) and is about to  *)
(* create the signal thread.  previous_group is not initialised by main.   *)
(***************************************************************************)
Start ==
    /\ mapping = MappingOf(map)
    /\ generated = << >>
    /\ mouse_pressed = FALSE
    /\ intended_group = server_group
    /\ previous_group \in Groups
    /\ record_ctx = "unset"
    /\ pc_main = "pthread_create"
    /\ pc_sig = "unborn"
    /\ data = NoEvent
    /\ current_group = 0
    /\ lock = Unlocked
    /\ exit_status = "running"
    /\ now = TimeVal(1, 750000)
    /\ ticks = 0
    /\ switches = 0
    /\ echoes = << >>
    /\ keys_down = {}
    /\ buttons_down = {}
    /\ ctx_enabled = FALSE
    /\ fake = NoRequests(map)
    /\ absorbed = FALSE
    /\ ctrl_req = [by |-> "none", locked |-> TRUE, failed |-> FALSE]
    /\ watch \in 1..Len(map)
    /\ mon = MonIdle

\* two keys and the side button, either mapping, no layout switch
Init ==
    /\ map \in Mappings
    /\ keyboard = KeyCodes
    /\ pointer = {9}
    /\ server_group = 0
    /\ Start

\* the default mapping, one key and both buttons, no layout switch
InitPointer ==
    /\ map = MapDefault
    /\ keyboard = {37}
    /\ pointer = Buttons
    /\ server_group = 0
    /\ Start

\* the default mapping, one key, the layout group switched by the user
InitGroup ==
    /\ map = MapDefault
    /\ keyboard = {37}
    /\ pointer = {}
    /\ server_group \in Groups
    /\ Start

\* main is about to parse a configuration string given with -e; one key, no
\* pointer
InitParse ==
    /\ mapping \in Configs
    /\ map = << >>
    /\ keyboard = {37}
    /\ pointer = {}
    /\ server_group = 0
    /\ generated = << >>
    /\ mouse_pressed = FALSE
    /\ intended_group = server_group
    /\ previous_group \in Groups
    /\ record_ctx = "unset"
    /\ pc_main = "parse_mapping"
    /\ pc_sig = "unborn"
    /\ data = NoEvent
    /\ current_group = 0
    /\ lock = Unlocked
    /\ exit_status = "running"
    /\ now = TimeVal(1, 750000)
    /\ ticks = 0
    /\ switches = 0
    /\ echoes = << >>
    /\ keys_down = {}
    /\ buttons_down = {}
    /\ ctx_enabled = FALSE
    /\ fake = << >>
    /\ absorbed = FALSE
    /\ ctrl_req = [by |-> "none", locked |-> TRUE, failed |-> FALSE]
    /\ watch = 1
    /\ mon = MonIdle

(***************************************************************************)
(* main, lines 192-233.                                                    *)
(***************************************************************************)
\* self->map = parse_mapping(...); exit(EXIT_FAILURE) when it is NULL
MainParseMapping ==
    /\ pc_main = "parse_mapping"
    /\ map' = parse_mapping(mapping)
    /\ fake' = NoRequests(map')
    /\ IF map' = << >>
       THEN exit_status' = "EXIT_FAILURE" /\ pc_main' = "exited"
       ELSE exit_status' = exit_status /\ pc_main' = "pthread_create"
    /\ UNCHANGED << mon_vars, env_vars, generated, mouse_pressed,
                    intended_group, previous_group, record_ctx, pc_sig, data,
                    current_group, lock, ctx_enabled, absorbed, ctrl_req >>

\* pthread_create(&self->sigwait_thread, NULL, sig_handler, self)
MainCreateThread ==
    /\ pc_main = "pthread_create"
    /\ pc_main' = "XRecordCreateContext"
    /\ pc_sig' = "sigwait"
    /\ UNCHANGED << mon_vars, prog_vars, env_vars, record_ctx, data, current_group, lock,
                    exit_status, ctx_enabled, fake, absorbed, ctrl_req >>

\* XRecordCreateContext and XSync on ctrl_conn
MainCreateContext ==
    /\ pc_main = "XRecordCreateContext"
    /\ MayUse("main")
    /\ record_ctx' = "created"
    /\ ctrl_req' = Request("main")
    /\ pc_main' = "XLockDisplay"
    /\ UNCHANGED << mon_vars, prog_vars, env_vars, pc_sig, data, current_group, lock,
                    exit_status, ctx_enabled, fake, absorbed >>

\* XLockDisplay(self->ctrl_conn), never undone by main
MainLockDisplay ==
    /\ pc_main = "XLockDisplay"
    /\ MayUse("main")
    /\ lock' = XLockDisplay("main")
    /\ pc_main' = "XRecordEnableContext"
    /\ UNCHANGED << mon_vars, prog_vars, env_vars, record_ctx, pc_sig, data,
                    current_group, exit_status, ctx_enabled, fake, absorbed,
                    ctrl_req >>

\* XRecordEnableContext(self->data_conn, ...): the server starts to deliver
MainEnableContext ==
    /\ pc_main = "XRecordEnableContext"
    /\ ctx_enabled' = TRUE
    /\ pc_main' = "start_of_data"
    /\ UNCHANGED << mon_vars, prog_vars, env_vars, record_ctx, pc_sig, data,
                    current_group, lock, exit_status, fake, absorbed,
                    ctrl_req >>

(***************************************************************************)
(* sig_handler.                                                            *)
(***************************************************************************)
\* a SIGINT or SIGTERM arrives and sigwait returns
Signal ==
    /\ pc_sig = "sigwait"
    /\ pc_sig' = "XLockDisplay"
    /\ UNCHANGED << mon_vars, prog_vars, env_vars, record_ctx, pc_main, data,
                    current_group, lock, exit_status, ctx_enabled, fake,
                    absorbed, ctrl_req >>

\* XLockDisplay(self->ctrl_conn): waits while main holds the lock
SigLockDisplay ==
    /\ pc_sig = "XLockDisplay"
    /\ MayUse("sig")
    /\ lock' = XLockDisplay("sig")
    /\ pc_sig' = "XRecordDisableContext"
    /\ UNCHANGED << mon_vars, prog_vars, env_vars, record_ctx, pc_main, data,
                    current_group, exit_status, ctx_enabled, fake, absorbed,
                    ctrl_req >>

\* a failed stop request that is only logged: the thread goes on
AfterStopLogged(failed) == [pc |-> "XUnlockDisplay", status |-> "running"]

\* lines 275-279: exit(EXIT_FAILURE) when the stop request has failed
AfterStop(failed) ==
    IF failed THEN [pc |-> "exited", status |-> "EXIT_FAILURE"]
    ELSE [pc |-> "XUnlockDisplay", status |-> "running"]

\* XRecordDisableContext and XSync.  The request fails when the call returns
\* 0, and when self->record_ctx is not yet set: it then names no context and
\* the X error ends the process.
SigDisableContext ==
    /\ pc_sig = "XRecordDisableContext"
    /\ MayUse("sig")
    /\ \E ok \in BOOLEAN :
        LET failed == record_ctx = "unset" \/ ~ok
            after == AfterStop(failed)
        IN /\ ctrl_req' = [Request("sig") EXCEPT !.failed = failed]
           /\ pc_sig' = after.pc
           /\ exit_status' = after.status
           /\ pc_main' = IF after.pc = "exited" THEN "exited" ELSE pc_main
           /\ ctx_enabled' = IF failed THEN ctx_enabled ELSE FALSE
    /\ UNCHANGED << mon_vars, prog_vars, env_vars, record_ctx, data, current_group, lock,
                    fake, absorbed >>

\* XUnlockDisplay(self->ctrl_conn); return NULL
SigUnlockDisplay ==
    /\ pc_sig = "XUnlockDisplay"
    /\ lock' = XUnlockDisplay(lock)
    /\ pc_sig' = "returned"
    /\ UNCHANGED << mon_vars, prog_vars, env_vars, record_ctx, pc_main, data,
                    current_group, exit_status, ctx_enabled, fake, absorbed,
                    ctrl_req >>

(***************************************************************************)
(* The server calls intercept.                                             *)
(***************************************************************************)
\* the events the handling of a key code can inject at most
RECURSIVE InjectCost(_, _, _)
InjectCost(m, key_code, i) ==
    IF i > Len(m) THEN 0
    ELSE (IF Matches(m[i], key_code) THEN 2 * Len(m[i].to_keys) ELSE 0)
         + InjectCost(m, key_code, i + 1)

\* intercept is entered: XkbGetState before XLockDisplay (lines 370-371)
InterceptEnter(e) ==
    /\ MayUse("main")
    /\ data' = e
    /\ current_group' = server_group
    /\ ctrl_req' = Request("main")
    /\ pc_main' = "intercept"
    /\ UNCHANGED << mon_vars, prog_vars, record_ctx, pc_sig, lock, exit_status,
                    ctx_enabled, fake, absorbed, now, ticks, server_group,
                    switches, mapping, keyboard, pointer >>

\* the first call, with category XRecordStartOfData
DeliverStartOfData ==
    /\ pc_main = "start_of_data"
    /\ InterceptEnter(StartOfData)
    /\ UNCHANGED << echoes, keys_down, buttons_down >>

\* what the user does reaches intercept
DeliverUser(e) ==
    /\ pc_main = "next_event"
    /\ ctx_enabled
    /\ \/ LedgerFind(generated, e.code, 1) # 0
       \/ Len(echoes) + InjectCost(map, e.code, 1) <= MaxEchoes
    /\ InterceptEnter(e)
    /\ UNCHANGED echoes

UserKeyPress ==
    \E c \in keyboard :
        /\ DeliverUser(Event("XRecordFromServer", "KeyPress", c, FALSE))
        /\ keys_down' = keys_down \cup {c}
        /\ UNCHANGED buttons_down

UserKeyRelease ==
    \E c \in keys_down :
        /\ DeliverUser(Event("XRecordFromServer", "KeyRelease", c, FALSE))
        /\ keys_down' = keys_down \ {c}
        /\ UNCHANGED buttons_down

UserButtonPress ==
    \E b \in pointer \ buttons_down :
        /\ DeliverUser(Event("XRecordFromServer", "ButtonPress", b, FALSE))
        /\ buttons_down' = buttons_down \cup {b}
        /\ UNCHANGED keys_down

UserButtonRelease ==
    \E b \in buttons_down :
        /\ DeliverUser(Event("XRecordFromServer", "ButtonRelease", b, FALSE))
        /\ buttons_down' = buttons_down \ {b}
        /\ UNCHANGED keys_down

\* the server reports the oldest injected event
DeliverEcho ==
    /\ pc_main = "next_event"
    /\ ctx_enabled
    /\ echoes # << >>
    /\ InterceptEnter(Head(echoes))
    /\ echoes' = Tail(echoes)
    /\ UNCHANGED << keys_down, buttons_down >>

\* lines 373-428: lock, ledger, mouse flag, rules, group, XkbLockGroup; an
\* event found in the ledger leaves by "goto exit" (line 391) and unlocks,
\* which leaves the lock as it was before line 373
InterceptBody ==
    /\ pc_main = "intercept"
    /\ MayUse("main")
    /\ LET i == LedgerFind(generated, data.code, 1)
           fromServer == data.category = "XRecordFromServer"
           r == RuleLoop(map, generated, NoRequests(map), 1,
                         MouseAfter(mouse_pressed, data.type),
                         data.type, data.code, now)
           group == IF previous_group # current_group
                    THEN current_group ELSE intended_group
       IN IF fromServer /\ i # 0
          THEN /\ generated' = LedgerUnlink(generated, i)
               /\ absorbed' = TRUE
               /\ fake' = NoRequests(map)
               /\ pc_main' = "next_event"
               /\ UNCHANGED << map, mouse_pressed, intended_group, echoes,
                               server_group, ctrl_req, lock >>
          ELSE /\ IF fromServer
                  THEN /\ mouse_pressed' = MouseAfter(mouse_pressed, data.type)
                       /\ map' = r.map
                       /\ generated' = r.generated
                       /\ fake' = r.requests
                       /\ echoes' = echoes \o EchoesOf(Flatten(r.requests, 1))
                  ELSE /\ fake' = NoRequests(map)
                       /\ UNCHANGED << mouse_pressed, map, generated, echoes >>
               /\ absorbed' = FALSE
               /\ intended_group' = group
               /\ server_group' = group
               /\ lock' = XLockDisplay("main")
               /\ ctrl_req' = [by |-> "main", locked |-> TRUE, failed |-> FALSE]
               /\ pc_main' = "XkbGetState"
    /\ mon' = MonAfter(mon, data, map, generated, mouse_pressed)
    /\ UNCHANGED << previous_group, record_ctx, pc_sig, data, current_group,
                    watch, exit_status, ctx_enabled, now, ticks, switches,
                    mapping, keyboard, pointer, keys_down, buttons_down >>

\* lines 429-434: re-read the group, undo the lock of line 373
InterceptExit ==
    /\ pc_main = "XkbGetState"
    /\ previous_group' = server_group
    /\ lock' = XUnlockDisplay(lock)
    /\ pc_main' = "next_event"
    /\ UNCHANGED << map, generated, mouse_pressed, intended_group, record_ctx,
                    pc_sig, data, current_group, exit_status,
                    ctx_enabled, env_vars, fake, absorbed, ctrl_req,
                    mon_vars >>

(***************************************************************************)
(* The clock and the user's layout switch.                                 *)
(***************************************************************************)
\* time passes between two events
Tick ==
    /\ ticks < MaxTicks
    /\ pc_main = "next_event"
    /\ now' = TimeAfter(now, TickStep)
    /\ ticks' = ticks + 1
    /\ UNCHANGED << mon_vars, prog_vars, record_ctx, pc_main, pc_sig, data,
                    current_group, lock, exit_status, ctx_enabled, fake,
                    absorbed, ctrl_req, server_group, switches, echoes,
                    mapping, keyboard, pointer, keys_down, buttons_down >>

\* the user (or another client) selects another layout group
GroupSwitch ==
    /\ switches < MaxSwitches
    /\ exit_status = "running"
    /\ \E g \in Groups \ {server_group} : server_group' = g
    /\ switches' = switches + 1
    /\ UNCHANGED << mon_vars, prog_vars, record_ctx, pc_main, pc_sig, data,
                    current_group, lock, exit_status, ctx_enabled, fake,
                    absorbed, ctrl_req, now, ticks, echoes, mapping, keyboard,
                    pointer,
                    keys_down, buttons_down >>

\* the keyboard, the pointer and the clock; no signal, no layout switch
Next ==
    \/ MainCreateThread
    \/ MainCreateContext
    \/ MainLockDisplay
    \/ MainEnableContext
    \/ DeliverStartOfData
    \/ UserKeyPress
    \/ UserKeyRelease
    \/ UserButtonPress
    \/ UserButtonRelease
    \/ DeliverEcho
    \/ InterceptBody
    \/ InterceptExit
    \/ Tick

Spec == Init /\ [][Next]_vars

SpecPointer == InitPointer /\ [][Next]_vars

\* the keyboard and the user's layout switches
NextGroup ==
    \/ MainCreateThread
    \/ MainCreateContext
    \/ MainLockDisplay
    \/ MainEnableContext
    \/ DeliverStartOfData
    \/ UserKeyPress
    \/ UserKeyRelease
    \/ DeliverEcho
    \/ InterceptBody
    \/ InterceptExit
    \/ GroupSwitch

SpecGroup == InitGroup /\ [][NextGroup]_vars

\* the keyboard and a termination signal
NextThreads ==
    \/ MainCreateThread
    \/ MainCreateContext
    \/ MainLockDisplay
    \/ MainEnableContext
    \/ Signal
    \/ SigLockDisplay
    \/ SigDisableContext
    \/ SigUnlockDisplay
    \/ DeliverStartOfData
    \/ UserKeyPress
    \/ UserKeyRelease
    \/ DeliverEcho
    \/ InterceptBody
    \/ InterceptExit

SpecThreads == InitGroup /\ [][NextThreads]_vars

\* the parser, then the keyboard
NextParse ==
    \/ MainParseMapping
    \/ MainCreateThread
    \/ MainCreateContext
    \/ MainLockDisplay
    \/ MainEnableContext
    \/ DeliverStartOfData
    \/ UserKeyPress
    \/ UserKeyRelease
    \/ DeliverEcho
    \/ InterceptBody
    \/ InterceptExit

SpecParse == InitParse /\ [][NextParse]_vars

\* each thread that can take a step eventually takes one; the user and the
\* signal are under no obligation
Fairness ==
    /\ WF_vars(MainCreateThread)
    /\ WF_vars(MainCreateContext)
    /\ WF_vars(MainLockDisplay)
    /\ WF_vars(MainEnableContext)
    /\ WF_vars(DeliverStartOfData)
    /\ WF_vars(InterceptBody)
    /\ WF_vars(InterceptExit)
    /\ SF_vars(SigLockDisplay)
    /\ WF_vars(SigDisableContext)
    /\ WF_vars(SigUnlockDisplay)

SpecThreadsFair == SpecThreads /\ Fairness


(***************************************************************************)
(* Properties.                                                             *)
(***************************************************************************)
IsFakeKey(r) == r.req = "XTestFakeKeyEvent"

\* the key events among the requests rule watch issued for the last event
Injected == SelectSeq(fake[watch], IsFakeKey)

\* a press of every substitute in rule order, then a release of every
\* substitute in rule order
Substitution(to) ==
    [i \in 1..(2 * Len(to)) |->
        XTestFakeKeyEvent(to[((i - 1) % Len(to)) + 1], i <= Len(to))]

Closed == mon.phase = "closed"
InTime == mon.elapsed < Usec(DefaultTimeout)

C2_OtherInputNoInject ==
    (mon.phase \in {"open", "closed"} /\ mon.other) => fake[watch] = << >>

\* C3: a trigger released at or after the timeout, with no other event
\* since its press, injects nothing; exactly the timeout is not a tap.
C3_TimeoutNoInject ==
    (Closed /\ mon.alone /\ ~InTime) => fake[watch] = << >>

\* a release exactly the timeout after a press that would have been a tap
C3_Witness ==
    /\ Closed /\ mon.alone /\ mon.seen /\ mon.clean
    /\ mon.elapsed = Usec(DefaultTimeout)
    /\ fake[watch] = << >>

\* C4: a trigger pressed while the user holds a mouse button injects
\* nothing when it is released.
C4_HeldNoInject ==
    (Closed /\ mon.held) => fake[watch] = << >>

\* C5: the echo of an injected event is always consumed by the ledger, so
\* it has no effect on the rules.
C5_EchoAbsorbed ==
    (pc_main # "intercept" /\ data.synthetic) => absorbed

\* the presses, or the releases, of the substitutes in rule order
Pass(to, is_press) == [i \in 1..Len(to) |-> XTestFakeKeyEvent(to[i], is_press)]

\* C18 as stated: a rule that injects issues the presses, a flush, the
\* releases and a second flush.
C18_TwoFlushedPasses ==
    \A r \in 1..Len(map) :
        fake[r] # << >>
            => fake[r] = Pass(map[r].to_keys, TRUE) \o << XFlush >>
                         \o Pass(map[r].to_keys, FALSE) \o << XFlush >>

\* C18 amended: a rule that injects issues the presses and then the
\* releases with no flush in between, and one flush after the last release.
C18_SingleFlush ==
    \A r \in 1..Len(map) :
        fake[r] # << >>
            => fake[r] = Pass(map[r].to_keys, TRUE)
                         \o Pass(map[r].to_keys, FALSE) \o << XFlush >>

\* the chord rule has injected: four key events and the flush
C18_Witness ==
    \E r \in 1..Len(map) :
        /\ Len(map[r].to_keys) = 2
        /\ Len(fake[r]) = 5
        /\ fake[r][5] = XFlush

(***************************************************************************)
(* The ledger.                                                             *)
(***************************************************************************)
\* the positions of the ledger that hold key code c
Holding(gen, c) == {i \in 1..Len(gen) : gen[i] = c}

\* gen without the entry at position i
Without(gen, i) ==
    [j \in 1..(Len(gen) - 1) |-> IF j < i THEN gen[j] ELSE gen[j + 1]]

\* the key codes of the key events among all requests of the last event
RECURSIVE KeysOf(_)
KeysOf(reqs) ==
    IF reqs = << >> THEN << >>
    ELSE (IF IsFakeKey(Head(reqs)) THEN << Head(reqs).key >> ELSE << >>)
         \o KeysOf(Tail(reqs))

\* C9: an event whose code is in the ledger removes the oldest entry with
\* that code and nothing else, and touches no rule; any other event removes
\* nothing and appends one entry per injected key event, two per substitute
\* code, in the order injected.
C9_LedgerFifo ==
    [][(pc_main = "intercept" /\ pc_main' # "intercept"
            /\ data.category = "XRecordFromServer")
        => LET at == Holding(generated, data.code)
           IN IF at # {}
              THEN /\ \E i \in at :
                        /\ \A j \in at : i <= j
                        /\ generated' = Without(generated, i)
                   /\ absorbed'
                   /\ UNCHANGED << map, mouse_pressed >>
              ELSE /\ ~absorbed'
                   /\ generated' = generated \o KeysOf(Flatten(fake', 1))
                   /\ \A r \in 1..Len(map) :
                        Len(SelectSeq(fake'[r], IsFakeKey))
                            \in {0, 2 * Len(map[r].to_keys)}]_vars

\* a key of the user took the entry of an injected release from the middle
\* of the ledger << 38, 9, 38 >>
C9_Witness ==
    /\ absorbed /\ ~data.synthetic /\ data.code = 9
    /\ pc_main = "next_event"
    /\ generated = << 38, 38 >>
    /\ Len(echoes) = 3

\* the injected events intercept has yet to see
Outstanding ==
    IF pc_main = "intercept" /\ data.synthetic
    THEN << data >> \o echoes ELSE echoes

\* the injected substitute codes whose echoes have not all been seen: each
\* has its release outstanding
Unechoed ==
    Cardinality({i \in 1..Len(Outstanding) :
                    Outstanding[i].type = "KeyRelease"})

\* C10: the ledger never holds more than two entries per injected code not
\* yet echoed, and is empty once every injected event has been echoed.
C10_LedgerBound ==
    /\ Len(generated) <= 2 * Unechoed
    /\ Outstanding = << >> => generated = << >>

\* two substitute codes in flight, the ledger at the bound
C10_Witness ==
    /\ Unechoed = 2
    /\ Len(generated) = 4

(***************************************************************************)
(* The layout group.                                                       *)
(***************************************************************************)
\* C7: when intercept returns, the server has the intended group; and a
\* group the server has got from elsewhere has become the intended group.
C7_GroupReasserted ==
    [][(pc_main = "intercept" /\ pc_main' # "intercept")
        => /\ server_group' = intended_group'
           /\ server_group # intended_group
                => intended_group' = server_group]_vars

\* C17: the group the user has chosen stays: the group of the server changes
\* only when the user switches it, never by the re-assertion of intercept.
C17_UserGroupKept ==
    [][server_group' # server_group => switches' # switches]_vars

(***************************************************************************)
(* The threads.                                                            *)
(***************************************************************************)
\* C8: with the signal thread started, every request on the control
\* connection is issued with the lock held, and main does not hold the lock
\* while it waits for an event.
C8_LockDiscipline ==
    /\ ctrl_req.locked
    /\ pc_main \in {"start_of_data", "next_event"} => lock.owner # "main"

\* C6: once the signal has arrived, the process ends.
C6_ShutdownCompletes ==
    (pc_sig = "XLockDisplay") ~> (pc_main = "exited")

(***************************************************************************)
(* The configuration.                                                      *)
(***************************************************************************)
\* the key codes of the server that are the trigger of rule km
TriggerKeys(km) == {c \in {9, 37, 38} : Matches(km, c)}

\* C11: no two rules with the same trigger are pressed at the same time,
\* whatever table the parser has built.
C11_OnePressedPerTrigger ==
    \A i, j \in 1..Len(map) :
        (i # j /\ TriggerKeys(map[i]) \cap TriggerKeys(map[j]) # {})
            => ~(map[i].pressed /\ map[j].pressed)

\* the pieces of s between the separators d
RECURSIVE SplitAt(_, _)
SplitAt(s, d) ==
    IF Pos(s, d, 1) = 0 THEN << s >>
    ELSE << SubSeq(s, 1, Pos(s, d, 1) - 1) >>
         \o SplitAt(SubSeq(s, Pos(s, d, 1) + 1, Len(s)), d)

\* a trigger that names a key: a known symbol, or "#" and a key code in use
TriggerResolves(from) ==
    IF StartsWithHash(from) THEN ValidKeycode(strtoul(Tail(from)))
    ELSE XStringToKeysym(from) # "NoSymbol"

\* an entry with "=", a trigger that resolves and substitutes that resolve
WellFormed(entry) ==
    /\ Pos(entry, "=", 1) # 0
    /\ TriggerResolves(SubSeq(entry, 1, Pos(entry, "=", 1) - 1))
    /\ LET to == SplitAt(SubSeq(entry, Pos(entry, "=", 1) + 1, Len(entry)),
                         "|")
       IN \A k \in 1..Len(to) : SubstituteCode(to[k]) # 0

\* C12: the table the parser builds has one rule per well-formed entry, in
\* the order of the configuration, and none for any other entry.
C12_MalformedSkipped ==
    [][pc_main = "parse_mapping"
        => LET good == SelectSeq(SplitAt(mapping, ";"), WellFormed)
           IN map' = [i \in 1..Len(good) |-> parse_token(good[i]).km]]_vars

\* C13 as stated: parsing the configuration never ends the process.
C13_ConfigNeverFatal ==
    [][pc_main = "parse_mapping" => exit_status' = "running"]_vars

\* C13 amended: parsing ends the process, with failure, exactly when no
\* entry of the configuration yields a rule; an entry without a rule next
\* to one with a rule is dropped and the process goes on.
C13_FatalOnlyWithoutRule ==
    [][pc_main = "parse_mapping"
        => LET entries == SplitAt(mapping, ";")
               none == \A i \in 1..Len(entries) : parse_token(entries[i]).null
           IN /\ none <=> exit_status' = "EXIT_FAILURE"
              /\ ~none <=> pc_main' = "pthread_create"
              /\ Len(map') = Cardinality({i \in 1..Len(entries) :
                                            ~parse_token(entries[i]).null})]_vars

\* two of three entries were dropped and main goes on with one rule
C13_Witness ==
    /\ pc_main = "pthread_create"
    /\ exit_status = "running"
    /\ Len(SplitAt(mapping, ";")) = 3
    /\ Len(map) = 1

(***************************************************************************)
(* The stop request of the signal thread.                                  *)
(***************************************************************************)
\* the signal thread has just issued a stop request that failed
StopFailed ==
    /\ pc_sig = "XRecordDisableContext"
    /\ pc_sig' # pc_sig
    /\ ctrl_req'.failed

\* C14 as stated: after a stop request that failed the signal thread goes
\* on to release the lock and the process does not exit with failure.
C14_StopFailureNotFatal ==
    [][StopFailed
        => pc_sig' = "XUnlockDisplay" /\ exit_status' = "running"]_vars

\* C14 amended: a stop request that failed ends the process at once with
\* failure status; the lock is not released and main does no teardown.
C14_StopFailureExits ==
    [][StopFailed
        => /\ exit_status' = "EXIT_FAILURE"
           /\ pc_sig' = "exited" /\ pc_main' = "exited"
           /\ lock' = lock /\ lock.owner = "sig"]_vars

\* the stop request for an existing context has failed and ended the process
C14_Witness ==
    /\ ctrl_req.by = "sig" /\ ctrl_req.failed
    /\ record_ctx = "created"
    /\ exit_status = "EXIT_FAILURE"

(***************************************************************************)
(* The state machine of a rule.                                            *)
(***************************************************************************)
\* intercept returns from an event of the given type that the user caused
UserEventDone(type) ==
    /\ pc_main = "intercept"
    /\ pc_main' # "intercept"
    /\ data.category = "XRecordFromServer"
    /\ ~data.synthetic
    /\ data.type = type

\* C15: after the user's release of a rule's trigger has been processed the
\* rule is idle: neither pressed nor used.
C15_ReleaseIdles ==
    [][UserEventDone("KeyRelease")
        => \A r \in 1..Len(map) :
              Matches(map[r], data.code)
                  => ~map'[r].pressed /\ ~map'[r].used]_vars

\* C16: a press of the trigger of a rule that is already pressed leaves
\* down_at as the first press of the hold has set it.
C16_NoTimerRestart ==
    [][UserEventDone("KeyPress")
        => \A r \in 1..Len(map) :
              (Matches(map[r], data.code) /\ map[r].pressed)
                  => map'[r].down_at = map[r].down_at]_vars

\* C19: a rule that is used is pressed: every rule is idle, pressed and
\* clean, or pressed and used.
C19_UsedImpliesPressed ==
    \A r \in 1..Len(map) : map[r].used => map[r].pressed

\* a pressed rule that a button press has marked used, and an idle rule
C19_Witness ==
    /\ pc_main = "next_event"
    /\ data.type = "ButtonPress" /\ ~absorbed
    /\ Len(map) = 2
    /\ map[1].pressed /\ map[1].used
    /\ ~map[2].pressed /\ ~map[2].used

\* C20: a button event, whatever its number, leaves pressed of every rule
\* as it is, does not reset used, and injects nothing.
C20_ButtonsDriveNoRule ==
    [][(UserEventDone("ButtonPress") \/ UserEventDone("ButtonRelease"))
        => \A r \in 1..Len(map) :
              /\ map'[r].pressed = map[r].pressed
              /\ map[r].used => map'[r].used
              /\ fake'[r] = << >>]_vars

(***************************************************************************)
(* The mouse-button flag.                                                  *)
(***************************************************************************)
\* C21: the flag is true exactly when the user holds at least one button;
\* in particular, when the flag is true and the user releases one button
\* while holding another, the flag stays true.
C21_FlagSurvivesRelease ==
    [][(UserEventDone("ButtonRelease") /\ mouse_pressed
            /\ buttons_down # {})
        => mouse_pressed']_vars

====
